---- MODULE Spec2Model ----
(***************************************************************************)
(* Model of the Bitso API client (src/src/client.ts) and of the           *)
(* export_fundings tool handler (src/src/tools/bitso-tools.ts).           *)
(*                                                                         *)
(* The client is a read-through TTL cache around signed HTTP GETs.  Every *)
(* async operation is split at its single await: the synchronous prefix   *)
(* (cache lookup, signing, sending) is one action, the continuation that  *)
(* runs when the HTTP promise settles is another.                          *)
(***************************************************************************)
EXTENDS Integers, Sequences, FiniteSets, TLC

(***************************************************************************)
(* Bounds of the model                                                     *)
(***************************************************************************)
\* config.cacheTtlSeconds as configured for the modelled process
CacheTtlSeconds == 1
\* number of client operations the direct callers start in one behaviour
MaxCalls == 2
\* number of export_fundings invocations in one behaviour
MaxExports == 2
\* number of array elements the heap of the process holds
MaxCollected == 300

(***************************************************************************)
(* Program constants                                                       *)
(***************************************************************************)
\* client.ts:73   config.cacheTtlSeconds * 1000
MsPerSecond == 1000
\* bitso-tools.ts:26 and :36   limit: 100 / payload.length === 100
PageSize == 100
\* client.ts:90   response.status === 200
HttpOk == 200

TtlMs == CacheTtlSeconds * MsPerSecond
\* the instants at which the clock is observed: a write, the millisecond
\* after it, the expiry of an entry written at 0 and the millisecond after it
Instants == {0, 1, TtlMs, TtlMs + 1}

(***************************************************************************)
(* JavaScript values                                                       *)
(***************************************************************************)
Undefined == [kind |-> "undefined"]
Null == [kind |-> "null"]
Str(s) == [kind |-> "string", text |-> s]
Num(n) == [kind |-> "number", n |-> n]
Bool(b) == [kind |-> "boolean", b |-> b]
Arr(items) == [kind |-> "array", items |-> items]
\* the response envelope { success, payload }
Envelope(s, p) == [kind |-> "object", success |-> s, payload |-> p]
\* { success: false, error: { message } }
Failure(message) ==
    [kind |-> "object", success |-> FALSE, payload |-> Undefined,
     error |-> [message |-> message]]
\* the body axios yields for an empty response body
EmptyBody == Str("")

\* JavaScript truthiness, as used by `if (cached)`, `!response.success`,
\* `!response.payload` and `while (marker)`
Truthy(v) ==
    CASE v.kind = "undefined" -> FALSE
      [] v.kind = "null" -> FALSE
      [] v.kind = "string" -> v.text # ""
      [] v.kind = "number" -> v.n # 0
      [] v.kind = "boolean" -> v.b
      [] OTHER -> TRUE

\* `x.success` read off a response body that is not null
SuccessOf(d) == IF d.kind = "object" THEN Bool(d.success) ELSE Undefined
\* `x.payload` read off a response body that is not null
PayloadOf(d) == IF d.kind = "object" THEN d.payload ELSE Undefined

(***************************************************************************)
(* Entities                                                                *)
(***************************************************************************)
\* A Funding; text fields are sequences of tokens, "," and "\n" being the
\* tokens the CSV format gives a meaning to.  created_at is the instant the
\* ISO string denotes, in epoch milliseconds.
Funding(fid, method, currency, amount, created) ==
    [kind |-> "funding", fid |-> fid, method |-> method, currency |-> currency,
     amount |-> amount, created_at |-> created]

Withdrawal(wid) == [kind |-> "withdrawal", wid |-> wid]

(***************************************************************************)
(* Filter objects and cache keys                                           *)
(***************************************************************************)
NoParams == Undefined
\* { limit, marker } in the order the call sites write the object literal
Params(limit, marker) == [kind |-> "object", limit |-> limit, marker |-> marker]

\* JSON.stringify of a filter object: members whose value is undefined are
\* omitted, the others are written in insertion order
JSONStringify(p) ==
    LET l == IF p.limit.kind = "number"
             THEN "\"limit\":" \o ToString(p.limit.n) ELSE ""
        m == IF p.marker.kind = "string"
             THEN "\"marker\":\"" \o p.marker.text \o "\"" ELSE ""
        sep == IF l # "" /\ m # "" THEN "," ELSE ""
    IN "{" \o l \o sep \o m \o "}"

getCacheKey(url, params) ==
    url \o (IF Truthy(params) THEN JSONStringify(params) ELSE "")

WithdrawalsPath == "/api/v3/withdrawals"
FundingsPath == "/api/v3/fundings"

ListOps == {"getWithdrawals", "getFundings"}
GetOps == {"getWithdrawal", "getFunding"}

\* the request path of an operation; arg is the filter object of a list
\* operation and the id of a get operation
RequestPathCopied(op, arg) ==
    CASE op = "getWithdrawals" -> WithdrawalsPath
      [] op = "testConnection" -> WithdrawalsPath
      [] op = "getWithdrawal" -> WithdrawalsPath \o "/" \o arg.text
      [] op = "getFundings" -> FundingsPath
      [] op = "getFunding" -> WithdrawalsPath \o "/" \o arg.text
RequestPath(op, arg) ==
    CASE op = "getWithdrawals" -> WithdrawalsPath
      [] op = "testConnection" -> WithdrawalsPath
      [] op = "getWithdrawal" -> WithdrawalsPath \o "/" \o arg.text
      [] op = "getFundings" -> FundingsPath
      [] op = "getFunding" -> FundingsPath \o "/" \o arg.text

CacheKeyOf(op, arg) ==
    IF op \in ListOps THEN getCacheKey(RequestPath(op, arg), arg)
    ELSE getCacheKey(RequestPath(op, arg), Undefined)

(***************************************************************************)
(* State                                                                   *)
(***************************************************************************)
VARIABLES
    now,          \* Date.now(), in milliseconds
    cache,        \* BitsoApiClient.cache: key -> { data, expires }
    origin,       \* history: key -> the response cached and the request it answered
    calls,        \* caller -> the client operation it is awaiting
    last,         \* history: the client operation that finished last
    ncalls,       \* history: client operations started by the direct callers
    requests,     \* history: the number of HTTP requests sent
    nonce,        \* history: the nonce of the request sent last
    upstream,     \* the fundings source behind the API
    pc,           \* export_fundings handler: position
    allFundings,  \* export_fundings handler: allFundings
    marker,       \* export_fundings handler: marker
    pageCalls,    \* history: getFundings calls made by the running export
    nexports,     \* history: export_fundings invocations so far
    file,         \* content of the file at `filepath`
    writes,       \* history: fs.writeFileSync calls made by the running export
    result,       \* the ToolResult the handler returned
    disk,         \* whether the file system can fail a write
    listParams,   \* list_fundings handler: the `params` it was invoked with
    probe         \* two client calls and the cache keys computed for them

sendVars == <<requests, nonce>>
clientVars == <<cache, origin, calls, last, ncalls, requests, nonce>>
exportVars == <<pc, allFundings, marker, pageCalls, nexports, file, writes, result,
                disk, listParams, probe>>
vars == <<now, cache, origin, calls, last, ncalls, requests, nonce, upstream,
          pc, allFundings, marker, pageCalls, nexports, file, writes, result,
          disk, listParams, probe>>

DirectCallers == {1, 2}
ExportCaller == 0
Callers == DirectCallers \cup {ExportCaller}

(***************************************************************************)
(* The TTL cache                                                           *)
(***************************************************************************)
\* client.ts:61   cached.expires > Date.now()
FreshInclusive(expires, t) == expires >= t
Fresh(expires, t) == expires > t

EmptyMap == [k \in {} |-> Null]
Without(c, key) == [k \in DOMAIN c \ {key} |-> c[k]]

\* getCachedData: the value returned (null for absent) and the map it leaves
getCachedDataSweeps(c, key, t) ==
    IF key \in DOMAIN c /\ Fresh(c[key].expires, t)
    THEN [val |-> c[key].data, cache |-> c]
    ELSE IF key \in DOMAIN c
         THEN [val |-> Null,
               cache |-> [k \in {j \in DOMAIN c : Fresh(c[j].expires, t)} |-> c[k]]]
         ELSE [val |-> Null, cache |-> c]
getCachedDataSliding(c, key, t) ==
    IF key \in DOMAIN c /\ Fresh(c[key].expires, t)
    THEN [val |-> c[key].data,
          cache |-> [c EXCEPT ![key].expires = t + TtlMs]]
    ELSE IF key \in DOMAIN c
         THEN [val |-> Null, cache |-> Without(c, key)]
         ELSE [val |-> Null, cache |-> c]
getCachedData(c, key, t) ==
    IF key \in DOMAIN c /\ Fresh(c[key].expires, t)
    THEN [val |-> c[key].data, cache |-> c]
    ELSE IF key \in DOMAIN c
         THEN [val |-> Null, cache |-> Without(c, key)]
         ELSE [val |-> Null, cache |-> c]

\* setCachedData
setCachedDataKeepsFirst(c, key, data, t) ==
    [k \in DOMAIN c \cup {key} |->
        IF k = key /\ k \notin DOMAIN c
        THEN [data |-> data, expires |-> t + TtlMs] ELSE c[k]]
setCachedDataKeepsExpiry(c, key, data, t) ==
    [k \in DOMAIN c \cup {key} |->
        IF k = key
        THEN [data |-> data,
              expires |-> IF k \in DOMAIN c THEN c[k].expires ELSE t + TtlMs]
        ELSE c[k]]
setCachedData(c, key, data, t) ==
    [k \in DOMAIN c \cup {key} |->
        IF k = key THEN [data |-> data, expires |-> t + TtlMs] ELSE c[k]]

\* createAuthHeaders: the nonce is Date.now().toString()
NonceMillisPart(t) == ToString(t % MsPerSecond)
Nonce(t) == ToString(t)

(***************************************************************************)
(* Request signing                                                         *)
(***************************************************************************)
\* config.apiKey and config.apiSecret
apiKey == "key"
apiSecret == "secret"

\* crypto.createHmac('sha256', secret).update(message).digest('hex'): the
\* digest stands for the pair it was computed from
Hmac(secret, message) == "hmac(" \o secret \o "," \o message \o ")"

\* generateSignature: body || '' is the empty string of a GET request
generateSignature(n, httpMethod, requestPath, body) ==
    Hmac(apiSecret, n \o httpMethod \o requestPath \o body)

\* createAuthHeaders at Date.now() = t; the header value is kept as the
\* parts the template literal joins
createAuthHeadersTwoNonces(httpMethod, requestPath, t) ==
    [Authorization |->
        << "Bitso", " ", apiKey, ":", Nonce(t), ":",
           generateSignature(Nonce(t + 1), httpMethod, requestPath, "") >>]
createAuthHeaders(httpMethod, requestPath, t) ==
    LET n == Nonce(t)
        signature == generateSignature(n, httpMethod, requestPath, "")
    IN [Authorization |-> << "Bitso", " ", apiKey, ":", n, ":", signature >>]

\* the query parameters handed to axios next to the path
QueryOf(op, arg) ==
    CASE op \in ListOps -> arg
      [] op = "testConnection" -> Params(Num(1), Undefined)
      [] OTHER -> Undefined

\* this.client.get(requestPath, { headers: authHeaders, params })
Request(op, arg, t) ==
    [method |-> "GET", url |-> RequestPath(op, arg), params |-> QueryOf(op, arg),
     headers |-> createAuthHeaders("GET", RequestPath(op, arg), t)]
NoRequest == [method |-> "", url |-> "", params |-> Undefined,
              headers |-> [Authorization |-> << >>]]

(***************************************************************************)
(* The transport and the upstream API                                      *)
(***************************************************************************)
\* What the HTTP promise settles with: a transport fault, or a status and a
\* parsed body.
Outcome(fault, status, data) == [fault |-> fault, status |-> status, data |-> data]

\* axios rejects the promise on a transport fault and, with the default
\* validateStatus the client keeps, on every status outside 200..299
AxiosRejects(o) == o.fault # "none" \/ o.status < 200 \/ o.status > 299

TransportFailures ==
    { Outcome("timeout", 0, Undefined),
      Outcome("network", 0, Undefined),
      Outcome("none", 401, Envelope(FALSE, Undefined)),
      Outcome("none", 500, EmptyBody) }

\* the fundings the upstream holds: number i has id "f<i>"
Item(i) ==
    Funding("f" \o ToString(i), <<"spei">>, <<"mxn">>, <<ToString(i) \o ".00">>,
            i * MsPerSecond)
Range(a, b) == [k \in 1..(b - a + 1) |-> Item(a + k - 1)]

\* two fundings whose text holds the characters the CSV format uses
OddItems ==
    << Funding("fa", <<"Circle", ",", "Transfer">>, <<"usd">>, <<"198.00">>, 5000),
       Funding("fb", <<"wire">>, <<"us", "\n", "d">>, <<"104.10">>, 6000) >>

\* the pages a scripted (count-based) source serves
PageNamed(name) ==
    CASE name = "p1" -> Range(1, PageSize)
      [] name = "tail" -> Range(2 * PageSize + 1, 2 * PageSize + 37)
      [] name = "over" -> Range(1, PageSize + 1)
      [] name = "blank" ->
            Range(1, PageSize - 1)
                \o << Funding("", <<"spei">>, <<"mxn">>, <<"1.00">>, 1000) >>
      [] name = "odd" -> OddItems
      [] OTHER -> << >>

\* what a scripted source answers with: a page, or one of its failures
ScriptedOutcome(name) ==
    CASE name = "timeout" -> Outcome("timeout", 0, Undefined)
      [] name = "denied" -> Outcome("none", HttpOk, Envelope(FALSE, Undefined))
      [] name = "nobody" -> Outcome("none", HttpOk, EmptyBody)
      [] OTHER -> Outcome("none", HttpOk, Envelope(TRUE, Arr(PageNamed(name))))

Scripts ==
    { <<"p1", "p1", "tail">>, <<"over", "tail">>, <<"blank", "tail">>, <<"odd">>,
      <<"p1", "timeout">>, <<"p1", "denied">>, <<"timeout", "odd">>,
      <<"denied", "odd">>, <<"nobody">> }
OrderedSizes == {0, 2 * PageSize, 2 * PageSize + 37}

\* a source that answers the k-th request it receives with its k-th page and,
\* once the pages are used up, with an empty page
Scripted(pages) == [kind |-> "script", pages |-> pages, pos |-> 1, n |-> 0]
\* a source of n fundings served in marker order, limit items at a time
Ordered(n) == [kind |-> "ordered", pages |-> << >>, pos |-> 0, n |-> n]
\* an upstream about which nothing is assumed
Arbitrary == [kind |-> "any", pages |-> << >>, pos |-> 0, n |-> 0]

\* the position of the funding a marker names, 0 for no marker
IndexOf(m, n) ==
    IF m.kind # "string" THEN 0
    ELSE IF \E i \in 1..n : Item(i).fid = m.text
         THEN CHOOSE i \in 1..n : Item(i).fid = m.text
         ELSE n
Min(a, b) == IF a < b THEN a ELSE b

\* what the source answers a list-fundings request with
Answer(up, params) ==
    IF up.kind = "script"
    THEN IF up.pos <= Len(up.pages)
         THEN ScriptedOutcome(up.pages[up.pos])
         ELSE Outcome("none", HttpOk, Envelope(TRUE, Arr(<< >>)))
    ELSE LET from == IndexOf(params.marker, up.n)
             lim == IF params.limit.kind = "number" THEN params.limit.n ELSE 25
         IN Outcome("none", HttpOk,
                    Envelope(TRUE, Arr(Range(from + 1, Min(from + lim, up.n)))))

Served(up) == IF up.kind = "script" THEN [up EXCEPT !.pos = @ + 1] ELSE up

SmallPages == { << >>, <<Item(1)>> }

\* what an arbitrary upstream can answer each operation with
ArbitraryOutcomes(op) ==
    CASE op \in ListOps ->
            { Outcome("timeout", 0, Undefined),
              Outcome("none", HttpOk, Envelope(FALSE, Undefined)) }
            \cup { Outcome("none", HttpOk, Envelope(TRUE, Arr(p))) : p \in SmallPages }
            \cup { Outcome("none", HttpOk, EmptyBody) }
      [] op = "getWithdrawal" ->
            { Outcome("timeout", 0, Undefined),
              Outcome("none", HttpOk, Failure("Withdrawal not found")) }
            \cup { Outcome("none", HttpOk, Envelope(TRUE, Withdrawal("w1"))),
                   Outcome("none", HttpOk, Envelope(TRUE, Null)) }
      [] op = "getFunding" ->
            { Outcome("timeout", 0, Undefined),
              Outcome("none", HttpOk, Failure("Funding not found")) }
            \cup { Outcome("none", HttpOk, Envelope(TRUE, Item(1))),
                   Outcome("none", HttpOk, Envelope(TRUE, Null)) }
      [] OTHER ->
            TransportFailures
            \cup { Outcome("none", HttpOk, Envelope(TRUE, Arr(<< >>))),
                   Outcome("none", 204, EmptyBody) }

\* the outcomes the pending request of a call can settle with
Outcomes(up, call) ==
    IF up.kind = "any" THEN ArbitraryOutcomes(call.op)
    ELSE { Answer(up, call.arg) }

(***************************************************************************)
(* Client operations                                                       *)
(***************************************************************************)
\* what one getCachedData call saw and did (history kept with the call)
NoLookup == [at |-> 0, present |-> FALSE, expires |-> 0, data |-> Undefined,
             val |-> Null, removed |-> FALSE]

\* the entry a cache write replaced (history kept with the call)
NoEntry == [present |-> FALSE, data |-> Undefined, expires |-> 0]
Replaced(c, key) ==
    IF key \in DOMAIN c
    THEN [present |-> TRUE, data |-> c[key].data, expires |-> c[key].expires]
    ELSE NoEntry

Idle == [st |-> "idle", op |-> "none", arg |-> Undefined, key |-> "",
         val |-> Undefined, sent |-> 0, hit |-> FALSE, got |-> Undefined,
         kept |-> FALSE, lk |-> NoLookup, req |-> NoRequest, stored |-> FALSE,
         over |-> NoEntry]

\* an Error object
Err(name, message) == [kind |-> "error", name |-> name, message |-> message]

\* An operation of caller c has run to its end with record r.  The export
\* handler picks the record up when it resumes; a direct caller's promise
\* settles at once.
Finished(c, r) ==
    IF c = ExportCaller
    THEN calls' = [calls EXCEPT ![c] = r] /\ UNCHANGED last
    ELSE calls' = [calls EXCEPT ![c] = Idle] /\ last' = r

\* `if (cached)`: the looked-up value is used only when it is truthy
Cached(v) == Truthy(v)

\* createAuthHeaders and this.client.get: one more request is on the wire
Send ==
    /\ requests' = requests + 1
    /\ nonce' = Nonce(now)

\* The synchronous prefix of an operation, up to its await: the cache lookup
\* and, when it does not return, the signed request.  testConnection has no
\* cache lookup.
Begin(c, op, arg) ==
    LET key == CacheKeyOf(op, arg)
        look == getCachedData(cache, key, now)
        lk == [at |-> now, present |-> key \in DOMAIN cache,
               expires |-> IF key \in DOMAIN cache THEN cache[key].expires ELSE 0,
               data |-> IF key \in DOMAIN cache THEN cache[key].data ELSE Undefined,
               val |-> look.val,
               removed |-> key \in DOMAIN cache /\ key \notin DOMAIN look.cache]
        sending == [st |-> "wait", op |-> op, arg |-> arg, key |-> key,
                    val |-> Undefined, sent |-> 1, hit |-> FALSE,
                    got |-> Undefined, kept |-> FALSE, lk |-> lk,
                    req |-> Request(op, arg, now), stored |-> FALSE,
                    over |-> NoEntry]
    IN IF op = "testConnection"
       THEN /\ calls' = [calls EXCEPT ![c] =
                            [sending EXCEPT !.key = "", !.lk = NoLookup]]
            /\ Send
            /\ UNCHANGED <<cache, origin, last>>
       ELSE /\ cache' = look.cache
            /\ origin' = [k \in DOMAIN look.cache |-> origin[k]]
            /\ IF Cached(look.val)
               THEN /\ Finished(c, [sending EXCEPT
                                        !.st = "ret", !.val = look.val,
                                        !.sent = 0, !.hit = TRUE,
                                        !.req = NoRequest,
                                        !.kept = key \in DOMAIN look.cache
                                                 /\ look.cache[key].data = look.val])
                    /\ UNCHANGED sendVars
               ELSE /\ calls' = [calls EXCEPT ![c] = sending]
                    /\ Send
                    /\ UNCHANGED last

\* The continuation of a list operation: the body is cached as it arrived;
\* reading `.payload` off a null body then raises a TypeError.
ListDone(o, c, key, t) ==
    IF AxiosRejects(o)
    THEN [st |-> "thrown", val |-> Err("AxiosError", o.fault), cache |-> c,
          stored |-> FALSE]
    ELSE IF o.data.kind = "null"
    THEN [st |-> "thrown", val |-> Err("TypeError", "payload of null"),
          cache |-> setCachedData(c, key, o.data, t), stored |-> TRUE]
    ELSE [st |-> "ret", val |-> o.data,
          cache |-> setCachedData(c, key, o.data, t), stored |-> TRUE]

\* The continuation of getWithdrawal and getFunding: the envelope is checked,
\* then the payload is cached and returned.
GetDone(o, c, key, t) ==
    IF AxiosRejects(o)
    THEN [st |-> "thrown", val |-> Err("AxiosError", o.fault), cache |-> c,
          stored |-> FALSE]
    ELSE IF o.data.kind = "null"
    THEN [st |-> "thrown", val |-> Err("TypeError", "success of null"), cache |-> c,
          stored |-> FALSE]
    ELSE IF ~Truthy(SuccessOf(o.data))
    THEN [st |-> "thrown", val |-> Err("Error", "API request failed"), cache |-> c,
          stored |-> FALSE]
    ELSE [st |-> "ret", val |-> PayloadOf(o.data),
          cache |-> setCachedData(c, key, PayloadOf(o.data), t), stored |-> TRUE]

\* The continuation of testConnection: every error is caught
TestDoneRethrows(o, c, key, t) ==
    IF AxiosRejects(o)
    THEN [st |-> "thrown", val |-> Err("AxiosError", o.fault), cache |-> c,
          stored |-> FALSE]
    ELSE [st |-> "ret", val |-> Bool(o.status = HttpOk), cache |-> c,
          stored |-> FALSE]
TestDoneStores(o, c, key, t) ==
    IF AxiosRejects(o)
    THEN [st |-> "ret", val |-> Bool(FALSE), cache |-> c, stored |-> FALSE]
    ELSE [st |-> "ret", val |-> Bool(o.status = HttpOk),
          cache |-> setCachedData(c, key, o.data, t), stored |-> TRUE]
TestDone(o, c, key, t) ==
    IF AxiosRejects(o)
    THEN [st |-> "ret", val |-> Bool(FALSE), cache |-> c, stored |-> FALSE]
    ELSE [st |-> "ret", val |-> Bool(o.status = HttpOk), cache |-> c,
          stored |-> FALSE]

Continuation(op, o, c, key, t) ==
    CASE op \in ListOps -> ListDone(o, c, key, t)
      [] op \in GetOps -> GetDone(o, c, key, t)
      [] OTHER -> TestDone(o, c, key, t)

\* setupResponseInterceptors: a response passes through; an error is logged
\* and thrown again
InterceptorRetrying(o) == IF AxiosRejects(o) THEN "retry" ELSE "pass"
Interceptor(o) == IF AxiosRejects(o) THEN "rethrow" ELSE "pass"

\* The HTTP promise of caller c settles with outcome o and the operation runs
\* to its end.
Settle(c, o) ==
    LET call == calls[c]
        done == Continuation(call.op, o, cache, call.key, now)
    IN /\ upstream' = Served(upstream)
       /\ IF Interceptor(o) = "retry"
          THEN /\ calls' = [calls EXCEPT ![c].sent = @ + 1,
                                       ![c].req = Request(call.op, call.arg, now)]
               /\ Send
               /\ UNCHANGED <<cache, origin, last>>
          ELSE /\ cache' = done.cache
               /\ origin' = IF done.stored
                            THEN [k \in DOMAIN done.cache |->
                                    IF k = call.key
                                    THEN [status |-> o.status,
                                          failed |-> o.data.kind = "object"
                                                     /\ ~o.data.success,
                                          at |-> now,
                                          op |-> call.op,
                                          url |-> call.req.url,
                                          params |-> call.req.params,
                                          body |-> o.data]
                                    ELSE origin[k]]
                            ELSE origin
               /\ Finished(c, [call EXCEPT
                                    !.st = done.st, !.val = done.val, !.got = o,
                                    !.stored = done.stored,
                                    !.over = IF done.stored
                                             THEN Replaced(cache, call.key)
                                             ELSE NoEntry,
                                    !.kept = call.key \in DOMAIN done.cache
                                             /\ done.cache[call.key].data = done.val])
               /\ UNCHANGED sendVars

OpArgs(op) ==
    CASE op = "getWithdrawals" -> { NoParams }
      [] op = "getFundings" -> { Params(Num(PageSize), Undefined) }
      [] op = "getWithdrawal" -> { Str("w1") }
      [] op = "getFunding" -> { Str("f1") }
      [] OTHER -> { Undefined }

\* a direct caller (the tool layer) starts a client operation
Invoke(c, op) ==
    /\ calls[c].st = "idle"
    /\ \A d \in DirectCallers : calls[d].st = "idle" => c <= d
    /\ ncalls < MaxCalls
    /\ \E arg \in OpArgs(op) : Begin(c, op, arg)
    /\ ncalls' = ncalls + 1
    /\ UNCHANGED <<now, upstream>>
    /\ UNCHANGED exportVars

CallGetWithdrawals == \E c \in DirectCallers : Invoke(c, "getWithdrawals")
CallGetWithdrawal == \E c \in DirectCallers : Invoke(c, "getWithdrawal")
CallGetFundings == \E c \in DirectCallers : Invoke(c, "getFundings")
CallGetFunding == \E c \in DirectCallers : Invoke(c, "getFunding")
CallTestConnection == \E c \in DirectCallers : Invoke(c, "testConnection")

\* the response to a direct caller's request arrives
Respond ==
    \E c \in DirectCallers :
        /\ calls[c].st = "wait"
        /\ \E o \in Outcomes(upstream, calls[c]) : Settle(c, o)
        /\ UNCHANGED <<now, ncalls>>
        /\ UNCHANGED exportVars

\* this.cache.clear()
clearCacheFirstOnly(c) ==
    IF DOMAIN c = {} THEN c ELSE Without(c, CHOOSE k \in DOMAIN c : TRUE)
clearCache(c) == EmptyMap

\* clearCache
ClearCache ==
    /\ DOMAIN cache # {}
    /\ cache' = clearCache(cache)
    /\ origin' = [k \in DOMAIN cache' |-> origin[k]]
    /\ UNCHANGED <<now, calls, last, ncalls, upstream>>
    /\ UNCHANGED sendVars
    /\ UNCHANGED exportVars

\* the clock advances to a later instant
Tick ==
    /\ \E t \in Instants : t > now /\ now' = t
    /\ UNCHANGED upstream
    /\ UNCHANGED clientVars
    /\ UNCHANGED exportVars

NoFile == << "ENOENT" >>
NoResult == [kind |-> "pending", count |-> 0, message |-> ""]
NoCall == [op |-> "none", arg |-> Undefined, key |-> ""]
NoProbe == [a |-> NoCall, b |-> NoCall, got |-> Undefined]

InitCommon ==
    /\ now = 0
    /\ cache = EmptyMap
    /\ origin = EmptyMap
    /\ calls = [c \in Callers |-> Idle]
    /\ last = Idle
    /\ ncalls = 0
    /\ requests = 0
    /\ nonce = ""
    /\ pc = "idle"
    /\ allFundings = << >>
    /\ marker = Undefined
    /\ pageCalls = 0
    /\ nexports = 0
    /\ file = NoFile
    /\ writes = 0
    /\ result = NoResult
    /\ listParams = Undefined
    /\ probe = NoProbe

Init == InitCommon /\ upstream = Arbitrary /\ disk = "sound"

Next ==
    \/ CallGetWithdrawals
    \/ CallGetWithdrawal
    \/ CallGetFundings
    \/ CallGetFunding
    \/ CallTestConnection
    \/ Respond
    \/ ClearCache
    \/ Tick

Spec == Init /\ [][Next]_vars

(***************************************************************************)
(* export_fundings                                                         *)
(***************************************************************************)
Comma == ","
Newline == "\n"

csvHeader ==
    << "method", Comma, "currency", Comma, "gross", Comma, "fee", Comma,
       "net amount", Comma, "timestamp", Comma, "datetime", Newline >>

\* Math.floor(createdDate.getTime() / 1000)
Timestamp(f) == ToString(f.created_at \div MsPerSecond)

\* String.prototype.replace(',', ''): the first comma is removed
RECURSIVE RemoveFirstComma(_)
RemoveFirstComma(s) ==
    IF s = << >> THEN << >>
    ELSE IF Head(s) = Comma THEN Tail(s)
    ELSE <<Head(s)>> \o RemoveFirstComma(Tail(s))

\* toLocaleString('en-US', ...): "MM/DD/YYYY, HH:mm:ss"
LocaleString(ms) ==
    << "day " \o ToString(ms \div 86400000), Comma,
       " second " \o ToString((ms \div MsPerSecond) % 86400) >>
Datetime(f) == RemoveFirstComma(LocaleString(f.created_at))

\* one CSV row; no field is escaped
RowFeeComputed(f) ==
    f.method \o <<Comma>> \o f.currency \o <<Comma>> \o f.amount
        \o <<Comma, "0.00", Comma>> \o f.amount
        \o <<Comma, Timestamp(f), Comma>> \o Datetime(f)
Row(f) ==
    f.method \o <<Comma>> \o f.currency \o <<Comma>> \o f.amount
        \o <<Comma, "0", Comma>> \o f.amount
        \o <<Comma, Timestamp(f), Comma>> \o Datetime(f)

\* allFundings.map(row).join('\n'), rows lo..hi
RECURSIVE JoinRows(_, _, _)
JoinRows(fs, lo, hi) ==
    IF lo > hi THEN << >>
    ELSE IF lo = hi THEN Row(fs[lo])
    ELSE LET mid == (lo + hi) \div 2
         IN JoinRows(fs, lo, mid) \o <<Newline>> \o JoinRows(fs, mid + 1, hi)

csvContent(fs) == csvHeader \o JoinRows(fs, 1, Len(fs))

Text(kind, count, message) == [kind |-> kind, count |-> count, message |-> message]

\* How a write can end: it succeeds; the file cannot be opened; or the file
\* is opened, which empties it, and the device fails before any or before
\* all of the content is written.
WriteOutcomes(d) ==
    IF d = "sound" THEN {"ok"} ELSE {"ok", "EACCES", "ENOSPC", "EIO"}

\* fs.writeFileSync(filepath, content, 'utf8'): the file it leaves
writeFileSync(old, content, w) ==
    CASE w = "ok" -> content
      [] w = "EACCES" -> old
      [] w = "ENOSPC" -> << >>
      [] OTHER -> SubSeq(content, 1, Len(content) \div 2)
\* the message of the error it throws, "" for none
WriteError(w) ==
    CASE w = "ok" -> ""
      [] w = "EACCES" -> "EACCES: permission denied, open"
      [] w = "ENOSPC" -> "ENOSPC: no space left on device, write"
      [] OTHER -> "EIO: i/o error, write"

\* The statements after the loop: the empty branch, or the rendering and the
\* write; an error the write throws is caught by the handler's catch block.
AfterLoopHeaderOnly(fs) ==
    /\ file' = csvContent(fs)
    /\ writes' = writes + 1
    /\ result' = Text("exported", Len(fs), "Successfully exported")
    /\ pc' = "done"
AfterLoop(fs) ==
    IF Len(fs) = 0
    THEN /\ result' = Text("empty", 0, "No funding transactions found to export.")
         /\ pc' = "done"
         /\ UNCHANGED <<file, writes>>
    ELSE /\ writes' = writes + 1
         /\ pc' = "done"
         /\ \E w \in WriteOutcomes(disk) :
               /\ file' = writeFileSync(file, csvContent(fs), w)
               /\ result' = IF WriteError(w) = ""
                            THEN Text("exported", Len(fs), "Successfully exported")
                            ELSE Text("error", 0, WriteError(w))

\* the handler's catch block
CaughtFlushes(e) ==
    /\ result' = Text("error", 0, e.message)
    /\ pc' = "done"
    /\ file' = csvContent(allFundings)
    /\ writes' = writes + 1
Caught(e) ==
    /\ result' = Text("error", 0, e.message)
    /\ pc' = "done"
    /\ UNCHANGED <<file, writes>>

\* marker = payload.length === 100 ? payload[payload.length - 1].fid : undefined
NextMarkerFirst(items) ==
    IF Len(items) = PageSize THEN Str(items[1].fid) ELSE Undefined
NextMarker(items) ==
    IF Len(items) = PageSize THEN Str(items[Len(items)].fid) ELSE Undefined

\* `if (!response.success || !response.payload) break`
Breaks(r) == ~Truthy(SuccessOf(r)) \/ ~Truthy(PayloadOf(r))

\* the handler is invoked
ExportStart ==
    /\ pc \in {"idle", "done"}
    /\ nexports < MaxExports
    /\ nexports' = nexports + 1
    /\ pc' = "loop"
    /\ allFundings' = << >>
    /\ marker' = Undefined
    /\ pageCalls' = 0
    /\ writes' = 0
    /\ result' = NoResult
    /\ UNCHANGED <<now, file, upstream, disk, listParams, probe>>
    /\ UNCHANGED clientVars

\* top of the do-body: client.getFundings({ limit: 100, marker }) up to its await
ExportCallNoMarker ==
    /\ pc = "loop"
    /\ Begin(ExportCaller, "getFundings", Params(Num(PageSize), Undefined))
    /\ pc' = "await"
    /\ pageCalls' = pageCalls + 1
    /\ UNCHANGED <<now, ncalls, upstream>>
    /\ UNCHANGED <<allFundings, marker, nexports, file, writes, result>>
    /\ UNCHANGED <<disk, listParams, probe>>
ExportCall ==
    /\ pc = "loop"
    /\ Begin(ExportCaller, "getFundings", Params(Num(PageSize), marker))
    /\ pc' = "await"
    /\ pageCalls' = pageCalls + 1
    /\ UNCHANGED <<now, ncalls, upstream>>
    /\ UNCHANGED <<allFundings, marker, nexports, file, writes, result>>
    /\ UNCHANGED <<disk, listParams, probe>>

\* the response to the page request arrives
ExportSettle ==
    /\ pc = "await"
    /\ calls[ExportCaller].st = "wait"
    /\ \E o \in Outcomes(upstream, calls[ExportCaller]) :
            Settle(ExportCaller, o)
    /\ UNCHANGED <<now, ncalls>>
    /\ UNCHANGED exportVars

\* The handler resumes after the await and runs to its next await or to its
\* end.  An array grown past what the heap holds ends the process or raises
\* a RangeError, depending on the limit hit first.  The record of the page
\* call stays in `calls` as history until the next page call replaces it.
ExportResume ==
    /\ pc = "await"
    /\ calls[ExportCaller].st \in {"ret", "thrown"}
    /\ LET call == calls[ExportCaller]
           r == call.val
       IN /\ IF call.st = "thrown"
             THEN Caught(r) /\ UNCHANGED <<allFundings, marker>>
             ELSE IF Breaks(r)
             THEN AfterLoop(allFundings) /\ UNCHANGED <<allFundings, marker>>
             ELSE IF Len(allFundings) + Len(r.payload.items) > MaxCollected
             THEN /\ UNCHANGED <<allFundings, marker>>
                  /\ \/ Caught(Err("RangeError", "Invalid array length"))
                     \/ pc' = "crashed" /\ UNCHANGED <<file, writes, result>>
             ELSE LET all == allFundings \o r.payload.items
                      m == NextMarker(r.payload.items)
                  IN /\ allFundings' = all
                     /\ marker' = m
                     /\ IF Truthy(m)
                        THEN pc' = "loop" /\ UNCHANGED <<file, writes, result>>
                        ELSE AfterLoop(all)
    /\ UNCHANGED <<now, cache, origin, calls, last, ncalls, requests, nonce,
                   upstream, pageCalls, nexports, disk, listParams, probe>>

Sources == { Scripted(p) : p \in Scripts } \cup { Ordered(n) : n \in OrderedSizes }

ExportInit == InitCommon /\ upstream \in Sources /\ disk = "sound"

ExportNext ==
    \/ ExportStart
    \/ ExportCall
    \/ ExportSettle
    \/ ExportResume
    \/ ClearCache
    \/ Tick

ExportSpec == ExportInit /\ [][ExportNext]_vars

\* The export repeated while nothing it cached can expire: the clock stays
\* below the TTL and clearCache is not called.
EarlyTick ==
    /\ \E t \in Instants : t > now /\ t < TtlMs /\ now' = t
    /\ UNCHANGED upstream
    /\ UNCHANGED clientVars
    /\ UNCHANGED exportVars

RepeatSources ==
    { Scripted(<<"p1">>), Scripted(<<"odd">>), Scripted(<<"p1", "denied">>),
      Scripted(<<"p1", "nobody", "tail">>), Ordered(2 * PageSize) }
RepeatInit == InitCommon /\ upstream \in RepeatSources /\ disk = "sound"
RepeatNext ==
    \/ ExportStart
    \/ ExportCall
    \/ ExportSettle
    \/ ExportResume
    \/ EarlyTick
RepeatSpec == RepeatInit /\ [][RepeatNext]_vars

\* the export on a file system whose writes can fail
DiskSources ==
    { Scripted(<<"p1">>), Scripted(<<"odd">>), Scripted(<<"p1", "timeout">>),
      Scripted(<<"nobody">>) }
DiskInit == InitCommon /\ upstream \in DiskSources /\ disk = "failing"
DiskSpec == DiskInit /\ [][ExportNext]_vars

\* The event loop runs every continuation that is ready and every response
\* arrives or times out; nothing in the code waits for the clock.
ExportFairSpec ==
    /\ ExportSpec
    /\ WF_vars(ExportCall)
    /\ WF_vars(ExportSettle)
    /\ WF_vars(ExportResume)

(***************************************************************************)
(* The list_fundings tool                                                  *)
(***************************************************************************)
\* the largest limit ListFundingsSchema lets through
MaxLimit == 100

\* the values of `limit` the tool is invoked with
Limits ==
    { Undefined, Str("10") }
        \cup { Num(n) : n \in {0 - 1, 0, 1, 25, MaxLimit, MaxLimit + 1, 150} }

\* ListFundingsSchema.parse: the issues z.number().int().positive().max(100)
\* .optional() raises for `limit`, in the order the checks are chained
ZodIssuesNoMax(limit) ==
    IF limit.kind = "undefined" THEN << >>
    ELSE IF limit.kind # "number"
    THEN << "limit: Expected number, received " \o limit.kind >>
    ELSE IF limit.n <= 0 THEN << "limit: Number must be greater than 0" >>
    ELSE << >>
ZodIssues(limit) ==
    IF limit.kind = "undefined" THEN << >>
    ELSE IF limit.kind # "number"
    THEN << "limit: Expected number, received " \o limit.kind >>
    ELSE (IF limit.n <= 0
          THEN << "limit: Number must be greater than 0" >> ELSE << >>)
         \o (IF limit.n > MaxLimit
             THEN << "limit: Number must be less than or equal to "
                        \o ToString(MaxLimit) >>
             ELSE << >>)

\* error.errors.map(err => `${path}: ${message}`).join(', ')
RECURSIVE JoinIssues(_)
JoinIssues(issues) ==
    IF Len(issues) = 0 THEN ""
    ELSE IF Len(issues) = 1 THEN issues[1]
    ELSE issues[1] \o ", " \o JoinIssues(Tail(issues))

\* the members of a funding the tool lists
Listed(f) ==
    [fid |-> f.fid, currency |-> f.currency, amount |-> f.amount,
     method |-> f.method, created_at |-> f.created_at]

\* the text of the ToolResult of a call that returned `response`: a fixed
\* sentence, or JSON.stringify({ success: true, count, fundings }), kept as
\* the object it denotes
ListText(response) ==
    IF \/ ~Truthy(SuccessOf(response))
       \/ ~Truthy(PayloadOf(response))
       \/ Len(response.payload.items) = 0
    THEN Text("none", 0, "No fundings found with the specified criteria.")
    ELSE [kind |-> "json", success |-> TRUE,
          count |-> Len(response.payload.items),
          fundings |-> [i \in 1..Len(response.payload.items) |->
                            Listed(response.payload.items[i])]]

\* The handler is invoked and runs to its first await or, when the schema
\* rejects the arguments, through its catch block to its end.  The text of a
\* rejection is kept as its two parts.
ListStart ==
    /\ pc \in {"idle", "done"}
    /\ ncalls < MaxCalls
    /\ \E limit \in Limits :
        /\ listParams' = Params(limit, Undefined)
        /\ IF ZodIssues(limit) # << >>
           THEN /\ result' = Text("invalid", 0,
                                  << "Validation error: ",
                                     JoinIssues(ZodIssues(limit)) >>)
                /\ pc' = "done"
                /\ UNCHANGED clientVars
           ELSE /\ Begin(ExportCaller, "getFundings", Params(limit, Undefined))
                /\ ncalls' = ncalls + 1
                /\ pc' = "await"
                /\ result' = NoResult
    /\ UNCHANGED <<now, upstream>>
    /\ UNCHANGED <<allFundings, marker, pageCalls, nexports, file, writes, disk,
                   probe>>

\* the response to the request of the getFundings call arrives
ListSettle ==
    /\ pc = "await"
    /\ calls[ExportCaller].st = "wait"
    /\ \E o \in Outcomes(upstream, calls[ExportCaller]) :
            Settle(ExportCaller, o)
    /\ UNCHANGED <<now, ncalls>>
    /\ UNCHANGED exportVars

\* the handler resumes after the await and returns its ToolResult
ListResume ==
    /\ pc = "await"
    /\ calls[ExportCaller].st \in {"ret", "thrown"}
    /\ LET call == calls[ExportCaller]
       IN result' = IF call.st = "thrown"
                    THEN Text("error", 0, "Error listing fundings: "
                                            \o call.val.message)
                    ELSE ListText(call.val)
    /\ pc' = "done"
    /\ UNCHANGED <<now, upstream>>
    /\ UNCHANGED clientVars
    /\ UNCHANGED <<allFundings, marker, pageCalls, nexports, file, writes,
                   disk, listParams, probe>>

ListInit == InitCommon /\ upstream = Arbitrary /\ disk = "sound"

ListNext ==
    \/ ListStart
    \/ ListSettle
    \/ ListResume
    \/ ClearCache
    \/ Tick

ListSpec == ListInit /\ [][ListNext]_vars

(***************************************************************************)
(* Cache keys                                                              *)
(***************************************************************************)
\* ids and filter objects a caller may pass, among them ids made of the
\* characters the keys are built from
Ids == { "w1", "f1", "", "{}", "{\"limit\":100}", "/", "../fundings/f1" }
Filters ==
    { NoParams, Params(Undefined, Undefined), Params(Num(PageSize), Undefined),
      Params(Num(PageSize), Str("f1")), Params(Undefined, Str("/w1")) }
KeyArgs(op) == IF op \in ListOps THEN Filters ELSE { Str(i) : i \in Ids }

\* one call of a cached operation and the key it computes
KeyedCall(op, arg) == [op |-> op, arg |-> arg, key |-> CacheKeyOf(op, arg)]

\* Call a stores its result in an empty cache under its key and call b looks
\* its own key up at the same instant.
KeyProbe ==
    /\ \E aop \in ListOps \cup GetOps, bop \in ListOps \cup GetOps :
         \E aarg \in KeyArgs(aop), barg \in KeyArgs(bop) :
            LET a == KeyedCall(aop, aarg)
                b == KeyedCall(bop, barg)
                stored == setCachedData(EmptyMap, a.key, Str(aop), now)
            IN probe' = [a |-> a, b |-> b,
                         got |-> getCachedData(stored, b.key, now).val]
    /\ UNCHANGED <<now, upstream>>
    /\ UNCHANGED clientVars
    /\ UNCHANGED <<pc, allFundings, marker, pageCalls, nexports, file, writes,
                   result, disk, listParams>>

KeyInit == InitCommon /\ upstream = Arbitrary /\ disk = "sound"
KeyNext == KeyProbe
KeySpec == KeyInit /\ [][KeyNext]_vars

(***************************************************************************)
(* Properties of the client                                                *)
(***************************************************************************)
CachedOps == ListOps \cup GetOps

\* every operation the state remembers: those awaiting a response and the one
\* that finished last
Records == { calls[c] : c \in Callers } \cup { last }
Looked == { r \in Records : r.op \in CachedOps }
Answered == { r \in Records : r.st \in {"ret", "thrown"} /\ r.sent = 1 }

HttpFailed(o) == o.fault # "none" \/ o.status \notin 200..299

\* C1: no cache entry holds a value that came from a failed HTTP request or
\* from a response envelope whose success flag is false.
C1_FailuresNeverCached ==
    \A k \in DOMAIN cache :
        /\ origin[k].status \in 200..299
        /\ ~origin[k].failed

\* C2: a call that finds an unexpired entry under its key returns that entry's
\* value and sends no request; any other call sends exactly one request and,
\* when it returns a result, that result is in the cache under the key.
C2_ReadThrough ==
    \A r \in Looked :
        /\ (r.lk.present /\ r.lk.at < r.lk.expires)
              => (r.st = "ret" /\ r.sent = 0 /\ r.val = r.lk.data)
        /\ ~(r.lk.present /\ r.lk.at < r.lk.expires) => r.sent = 1
        /\ (r.st = "ret" /\ r.sent = 1) => r.kept

\* every lookup recorded: the stored value while now < expiresAt, else absent
\* and the entry deleted
C3_Lookups ==
    \A r \in Looked :
        /\ (r.lk.present /\ r.lk.at < r.lk.expires)
              => (r.lk.val = r.lk.data /\ ~r.lk.removed)
        /\ (r.lk.present /\ r.lk.at >= r.lk.expires)
              => (r.lk.val = Null /\ r.lk.removed)
        /\ ~r.lk.present => (r.lk.val = Null /\ ~r.lk.removed)
C3_Removals ==
    \A k \in DOMAIN cache \ DOMAIN cache' :
        \/ DOMAIN cache' = {}
        \/ /\ cache[k].expires <= now
           /\ DOMAIN cache' = DOMAIN cache \ {k}
           /\ \E r \in Records' : r.key = k /\ r.lk.at = now /\ r.lk.removed

\* C3: a lookup returns the stored value only while now < expiresAt; at
\* now >= expiresAt it deletes the entry and reports absent; and an entry
\* leaves the cache only by such a lookup, an overwrite or clearCache.
C3_LazyExpiration == []C3_Lookups /\ [][C3_Removals]_vars

\* C3 witness: a lookup made at exactly expiresAt deleted the entry
C3_Witness ==
    \E r \in Looked : r.lk.present /\ r.lk.at = r.lk.expires /\ r.lk.removed

\* C10: testConnection never throws and answers false to every transport
\* failure, while the list and get operations propagate the failure.
C10_TestConnectionDowngrades ==
    \A r \in Answered :
        /\ r.op = "testConnection" => r.st = "ret"
        /\ (r.op = "testConnection" /\ HttpFailed(r.got)) => r.val = Bool(FALSE)
        /\ (r.op \in CachedOps /\ HttpFailed(r.got)) => r.st = "thrown"

\* C10 witness: testConnection answered false to a timeout
C10_Witness ==
    /\ last.op = "testConnection"
    /\ last.st = "ret"
    /\ last.got.fault = "timeout"
    /\ last.val = Bool(FALSE)

(***************************************************************************)
(* Properties of export_fundings                                           *)
(***************************************************************************)
\* the page call the handler made last, and the page it returned
PageCall == calls[ExportCaller]
GotPage == PageCall.st = "ret" /\ ~Breaks(PageCall.val)
PageItems == PageCall.val.payload.items
PageFailed ==
    \/ PageCall.st = "thrown"
    \/ PageCall.st = "ret" /\ ~Truthy(SuccessOf(PageCall.val))

\* C4: when a page request after the first returns success=false or throws,
\* the loop stops and everything collected from the earlier pages is rendered
\* and written to the file.
C4_PartialFailureKeepsData ==
    (pc = "done" /\ pageCalls > 1 /\ PageFailed)
        => (allFundings # << >> /\ writes = 1 /\ file = csvContent(allFundings))

\* C5: after a page, the loop stops exactly when the page holds fewer than
\* PageSize items; otherwise marker is the id of the page's last item and
\* another page is requested.
C5_TerminationRule ==
    /\ (pc = "done" /\ GotPage /\ result.kind # "error")
            => Len(PageItems) < PageSize
    /\ (pc = "loop" /\ pageCalls > 0)
            => /\ GotPage
               /\ Len(PageItems) >= PageSize
               /\ marker = Str(PageItems[Len(PageItems)].fid)

\* C6: for an unchanging source of n fundings served in marker order, the
\* export collects exactly the n fundings in source order with
\* n \div PageSize + 1 page calls, each of them a request when the cache is cold.
C6_ExportComplete ==
    (pc = "done" /\ upstream.kind = "ordered")
        => /\ allFundings = Range(1, upstream.n)
           /\ pageCalls = upstream.n \div PageSize + 1
           /\ nexports = 1 => requests = pageCalls

\* C6 witness: 237 fundings were exported with three page requests
C6_Witness ==
    /\ pc = "done"
    /\ upstream.kind = "ordered"
    /\ nexports = 1
    /\ Len(allFundings) = 2 * PageSize + 37
    /\ requests = 3

C8_EmptyExport ==
    (pc = "done" /\ PageCall.st = "ret" /\ allFundings = << >>)
        => /\ writes = 0
           /\ result = Text("empty", 0, "No funding transactions found to export.")

\* C8 witness: an export ended with nothing collected
C8_Witness ==
    pc = "done" /\ PageCall.st = "ret" /\ allFundings = << >> /\ pageCalls = 1

\* Reading a CSV text: the pieces of s between occurrences of the token d
\* (of s[lo..hi], by halves)
RECURSIVE Split(_, _, _, _)
Split(s, d, lo, hi) ==
    IF lo > hi THEN << << >> >>
    ELSE IF lo = hi THEN (IF s[lo] = d THEN << << >>, << >> >> ELSE << <<s[lo]>> >>)
    ELSE LET mid == (lo + hi) \div 2
             l == Split(s, d, lo, mid)
             r == Split(s, d, mid + 1, hi)
         IN SubSeq(l, 1, Len(l) - 1) \o << l[Len(l)] \o r[1] >>
                \o SubSeq(r, 2, Len(r))
Lines(text) == Split(text, Newline, 1, Len(text))
Fields(line) == Split(line, Comma, 1, Len(line))
HeaderLine == SubSeq(csvHeader, 1, Len(csvHeader) - 1)

\* what a reader of the file finds in it: the header line, then one line per
\* collected funding whose first five fields are the funding's method and
\* currency, its amount, the literal 0 and its amount again
ReadsBack(text, fs) ==
    LET ls == Lines(text)
    IN /\ Len(ls) = 1 + Len(fs)
       /\ ls[1] = HeaderLine
       /\ \A i \in 1..Len(fs) :
            LET cols == Fields(ls[i + 1])
            IN /\ Len(cols) >= 5
               /\ cols[1] = fs[i].method
               /\ cols[2] = fs[i].currency
               /\ cols[3] = fs[i].amount
               /\ cols[4] = <<"0">>
               /\ cols[5] = fs[i].amount
Plain(field) == \A i \in 1..Len(field) : field[i] \notin {Comma, Newline}
PlainFunding(f) == Plain(f.method) /\ Plain(f.currency) /\ Plain(f.amount)
Exported == pc = "done" /\ result.kind = "exported"

\* C9 as stated: the written file reads back as the header and one row per
\* collected funding, carrying method, currency, amount, 0, amount.
C9_CsvFidelity_AsStated == Exported => ReadsBack(file, allFundings)

\* C9: the written file is the header followed by the unescaped rows; it
\* reads back as one row per collected funding with method, currency, amount,
\* 0, amount whenever no such field holds a comma or a newline.
C9_CsvFidelity ==
    (Exported /\ \A i \in 1..Len(allFundings) : PlainFunding(allFundings[i]))
        => /\ writes = 1
           /\ ReadsBack(file, allFundings)

\* C9 witness: a file of 237 plain fundings was written
C9_Witness ==
    /\ Exported
    /\ Len(allFundings) = 2 * PageSize + 37
    /\ \A i \in 1..Len(allFundings) : PlainFunding(allFundings[i])
    /\ Len(Lines(file)) = 2 * PageSize + 38

(***************************************************************************)
(* Properties of the client: outcomes, requests and signing                *)
(***************************************************************************)
\* the response was received with HTTP success and its envelope says
\* success = false
EnvelopeFailed(o) ==
    ~HttpFailed(o) /\ o.data.kind = "object" /\ ~o.data.success

\* C11: testConnection sends the signed list-withdrawals request with limit 1
\* and returns true exactly when the transport accepts the response, that
\* is for every 2xx status, and false for every other outcome.
C11_TestConnectionIffSuccess ==
    \A r \in Answered :
        r.op = "testConnection"
            => /\ r.req.url = WithdrawalsPath
               /\ r.req.params = Params(Num(1), Undefined)
               /\ r.st = "ret"
               /\ r.val = Bool(~HttpFailed(r.got))

\* C12: getWithdrawal and getFunding answered with success = false throw an
\* error that carries the failure detail of the response, return no entity
\* and store nothing in the cache.
C12_GetFailureCarriesDetail ==
    \A r \in Answered :
        (r.op \in GetOps /\ EnvelopeFailed(r.got))
            => /\ r.st = "thrown"
               /\ ~r.stored
               /\ r.val.message = r.got.data.error.message

\* C13: an invocation sends at most one request; a failed request is reported
\* to the caller after that one attempt; and no request is sent on behalf of
\* an invocation that has ended.
C13_NoRetry ==
    /\ \A r \in Records : r.sent <= 1
    /\ requests <= ncalls
    /\ \A r \in Answered :
            HttpFailed(r.got)
                => \/ r.st = "thrown"
                   \/ r.op = "testConnection" /\ r.val = Bool(FALSE)

\* C13 witness: a request timed out and the call ended with that one request
C13_Witness ==
    /\ last.op \in CachedOps
    /\ last.st = "thrown"
    /\ last.got.fault = "timeout"
    /\ last.sent = 1
    /\ requests = 1
    /\ \A c \in Callers : calls[c].st = "idle"

\* the operations in flight, and what an operation returns of its response
Waiting == { c \in DirectCallers : calls[c].st = "wait" }
OfResponse(op, data) == IF op \in GetOps THEN PayloadOf(data) ELSE data
Unexpired(lk) == lk.present /\ lk.at < lk.expires

\* C14: two calls that start on the same absent key before either response
\* arrives send one request each; a caller receives the response to its own
\* request; and a call that starts once a result is stored and unexpired is
\* served from the cache.
C14_NoCoalescing ==
    /\ \A c, d \in Waiting :
            (c # d /\ calls[c].key = calls[d].key)
                => (calls[c].sent = 1 /\ calls[d].sent = 1 /\ requests >= 2)
    /\ \A r \in Answered :
            (r.op \in CachedOps /\ r.st = "ret")
                => r.val = OfResponse(r.op, r.got.data)
    /\ \A r \in Looked : Unexpired(r.lk) => (r.hit /\ r.sent = 0)

\* a finished call that missed and whose cache write replaced the entry a
\* concurrent miss on the same key had stored while the call was in flight
Overwrote(r) ==
    /\ r.op \in CachedOps
    /\ r.st = "ret"
    /\ r.sent = 1
    /\ ~r.lk.present \/ r.lk.removed
    /\ r.stored
    /\ r.over.present

\* a well-formed result of an operation: a success envelope of a list
\* operation, an entity of a get operation
Sound(op, v) ==
    IF op \in GetOps THEN v.kind \in {"funding", "withdrawal"}
    ELSE v.kind = "object" /\ v.success

\* C15 as stated: after two concurrent misses on one key, the value left in
\* the cache equals the value each of the two callers received (read for
\* well-formed results only).
C15_RaceHarmless_AsStated ==
    \A r \in Records :
        (Overwrote(r) /\ Sound(r.op, r.val) /\ Sound(r.op, r.over.data))
            => (r.kept /\ r.over.data = r.val)

\* C15: after two concurrent misses on one key, the later write replaces the
\* earlier one: the value left in the cache is the one the caller that
\* completed last received from its own response, and it equals the replaced
\* value exactly when the two responses carried the same data.
C15_LastWriteWins ==
    \A r \in Records :
        Overwrote(r)
            => /\ r.kept
               /\ r.val = OfResponse(r.op, r.got.data)
               /\ (r.over.data = OfResponse(r.op, r.got.data)) <=> (r.over.data = r.val)

\* C15 witness: a second write replaced a different value stored by a
\* concurrent miss
C15_Witness ==
    Overwrote(last) /\ last.kept /\ last.over.data # last.val

\* reading a nonce back as a number: the instant whose decimal form it is
ParseInt(text) == CHOOSE n \in Instants : ToString(n) = text
NonceOf(request) == request.headers.Authorization[5]

\* C16: each request sent carries a nonce whose number is at least the number
\* of the nonce of the request sent before it.
C16_NonceNonDecreasing ==
    [][(requests' > requests /\ requests > 0)
            => ParseInt(nonce') >= ParseInt(nonce)]_vars

\* C16 witness: a request in flight carries a smaller nonce than the request
\* sent after it
C16_Witness ==
    \E c \in Waiting :
        /\ requests = 2
        /\ ParseInt(NonceOf(calls[c].req)) < ParseInt(nonce)

\* the requests the state remembers: those in flight and the one of the call
\* that finished last
Sent == { r \in Records : r.sent >= 1 }

\* C17: no two requests carry the same nonce.
C17_NonceSingleUse ==
    /\ \A c, d \in Waiting : c # d => NonceOf(calls[c].req) # NonceOf(calls[d].req)
    /\ \A c \in Waiting :
            last.sent >= 1 => NonceOf(calls[c].req) # NonceOf(last.req)

\* what the API recomputes from a request it receives: the digest of the
\* nonce in the header, the method, the path without the query, and no body
Verifies(request) ==
    LET h == request.headers.Authorization
    IN /\ Len(h) = 7
       /\ <<h[1], h[2], h[3], h[4], h[6]>> = <<"Bitso", " ", apiKey, ":", ":">>
       /\ h[7] = Hmac(apiSecret, h[5] \o request.method \o request.url \o "")
BasePaths ==
    { WithdrawalsPath, FundingsPath, WithdrawalsPath \o "/w1", FundingsPath \o "/f1" }

C19_RoundTrip ==
    \A r \in Looked :
        Unexpired(r.lk)
            => /\ r.lk.val = r.lk.data
               /\ r.st = "ret"
               /\ r.hit
               /\ r.val = r.lk.data

\* C20: every entry expires TtlMs after the write that stored it, and a
\* write replaces whatever entry the key had, so that the key holds what was
\* written last.
C20_CacheStore ==
    /\ \A k \in DOMAIN cache :
            /\ k \in DOMAIN origin
            /\ origin[k].at <= now
            /\ cache[k].expires = origin[k].at + CacheTtlSeconds * MsPerSecond
    /\ \A r \in Records : (r.stored /\ r.st = "ret") => r.kept

\* C20 witness: a write replaced an entry stored earlier and the key now
\* expires TtlMs after the later write
C20_Witness ==
    /\ last.stored
    /\ last.kept
    /\ last.over.present
    /\ last.key \in DOMAIN cache
    /\ cache[last.key].expires > last.over.expires
    /\ cache[last.key].expires = now + TtlMs

\* C21: clearCache removes every entry, whatever was cached: a step that
\* changes the cache without any call starting or finishing (a clearCache)
\* leaves it empty, and a call started on the emptied cache is a miss that
\* puts exactly one request on the wire.
C21_ClearStep == cache' # cache /\ calls' = calls /\ last' = last
C21_Starts(c) == calls[c].st # "wait" /\ calls'[c] # calls[c]
C21_ClearCacheEmpties ==
    [][ /\ C21_ClearStep => DOMAIN cache' = {}
        /\ DOMAIN cache = {} =>
              /\ last' # last => ~last'.hit
              /\ \A c \in Callers :
                    C21_Starts(c) =>
                        /\ calls'[c].st = "wait"
                        /\ calls'[c].sent = 1
                        /\ ~calls'[c].lk.present
                        /\ requests' = requests + 1 ]_vars
\* A second export, started at the instant the first one wrote its file,
\* misses on the first page the first export had stored: the cache was
\* cleared in between.
C21_Witness ==
    /\ nexports = 2 /\ pageCalls = 1
    /\ file # NoFile
    /\ now = 0
    /\ calls[ExportCaller].st = "wait"
    /\ calls[ExportCaller].sent = 1
    /\ ~calls[ExportCaller].lk.present

\* C22: expiry is local to its key: the lookup a page call makes leaves the
\* entry of every other key as it was (value and expiry), so any later lookup
\* of another key returns what it would have returned without this lookup;
\* when the lookup finds its key expired, exactly that one entry goes.
C22_Looks == pageCalls' = pageCalls + 1
C22_ExpiryLocal ==
    [][ C22_Looks =>
          LET key == calls'[ExportCaller].key
          IN /\ \A j \in DOMAIN cache \ {key} :
                    /\ j \in DOMAIN cache'
                    /\ cache'[j] = cache[j]
                    /\ \A t \in Instants :
                          getCachedData(cache', j, t).val
                              = getCachedData(cache, j, t).val
             /\ DOMAIN cache' \subseteq DOMAIN cache
             /\ calls'[ExportCaller].lk.removed =>
                    /\ key \in DOMAIN cache
                    /\ ~Fresh(cache[key].expires, now)
                    /\ cache' = Without(cache, key) ]_vars
\* a page call has just removed its expired entry while the expired entry of
\* another page is still in the cache
C22_Witness ==
    /\ calls[ExportCaller].st = "wait"
    /\ calls[ExportCaller].lk.removed
    /\ \E k \in DOMAIN cache :
          /\ k # calls[ExportCaller].key
          /\ ~Fresh(cache[k].expires, now)

\* C23: the export is strictly sequential: at most one page request is in
\* flight at any time and only while the handler awaits it; the first page
\* call of an invocation carries no marker; every later page call is issued
\* after the previous one has returned its page and carries the id of that
\* page's last item as marker.
C23_InFlight == { c \in Callers : calls[c].st = "wait" }
C23_Sequential ==
    /\ [](/\ Cardinality(C23_InFlight) <= 1
          /\ calls[ExportCaller].st = "wait" => pc = "await")
    /\ [][ C22_Looks =>
              /\ pc = "loop"
              /\ C23_InFlight = {}
              /\ calls'[ExportCaller].arg.limit = Num(PageSize)
              /\ IF pageCalls = 0
                 THEN calls'[ExportCaller].arg.marker = Undefined
                 ELSE /\ GotPage
                      /\ calls'[ExportCaller].arg.marker
                            = Str(PageItems[Len(PageItems)].fid) ]_vars
\* the third page request of an invocation is on the wire, asking for what
\* follows the last item of the second page
C23_Witness ==
    /\ pc = "await" /\ pageCalls = 3
    /\ calls[ExportCaller].st = "wait"
    /\ calls[ExportCaller].req.params.marker = Str(Item(2 * PageSize).fid)
    /\ Len(allFundings) = 2 * PageSize

\* C24: a list_fundings call whose page holds no funding returns a JSON text
\* with success = true, count = 0 and fundings = []; and in every JSON text
\* the tool returns count is the length of fundings.
C24_EmptyPage ==
    /\ calls[ExportCaller].st = "ret"
    /\ Truthy(SuccessOf(calls[ExportCaller].val))
    /\ PayloadOf(calls[ExportCaller].val).kind = "array"
    /\ Len(PayloadOf(calls[ExportCaller].val).items) = 0
C24_EmptyListIsJson ==
    /\ (pc = "done" /\ listParams # Undefined /\ C24_EmptyPage
            /\ result.kind \notin {"invalid", "pending"}) =>
          /\ result.kind = "json"
          /\ result.success
          /\ result.count = 0
          /\ result.fundings = << >>
    /\ result.kind = "json" => result.count = Len(result.fundings)

\* C25: list_fundings answers a numeric limit outside 1..100 with a
\* 'Validation error' text and the rejected call touches the client in no way
\* (no call, no request, no cache change); a limit inside 1..100 and an absent
\* limit are passed on to client.getFundings unchanged.
C25_Outside(l) == l.kind = "number" /\ (l.n < 1 \/ l.n > 100)
C25_Inside(l) == l.kind = "undefined" \/ (l.kind = "number" /\ l.n \in 1..100)
C25_LimitValidated ==
    /\ [](listParams # Undefined =>
            /\ C25_Outside(listParams.limit) =>
                  /\ pc = "done"
                  /\ result.kind = "invalid"
                  /\ result.message[1] = "Validation error: "
            /\ C25_Inside(listParams.limit) =>
                  /\ pc \in {"await", "done"}
                  /\ result.kind # "invalid"
                  /\ calls[ExportCaller].op = "getFundings"
                  /\ calls[ExportCaller].arg = listParams)
    /\ [][ (result'.kind = "invalid"
                /\ (result' # result \/ listParams' # listParams)) =>
              /\ requests' = requests
              /\ ncalls' = ncalls
              /\ calls' = calls
              /\ cache' = cache ]_vars
\* a call with limit 101 has been rejected after an accepted call had sent
\* the only request so far
C25_Witness ==
    /\ pc = "done"
    /\ listParams = Params(Num(MaxLimit + 1), Undefined)
    /\ result.kind = "invalid"
    /\ ncalls = 1 /\ requests = 1
    /\ calls[ExportCaller].arg.limit = Num(MaxLimit)

\* C26: the keys of two calls of different operations among getWithdrawals,
\* getWithdrawal, getFundings and getFunding differ, whatever filter object
\* or id each is given, so the lookup one call makes never returns what a
\* call of another operation stored.
C26_KeysDistinct ==
    probe.a.op # probe.b.op =>
        /\ probe.a.key # probe.b.key
        /\ probe.got = Null
\* the id of a getWithdrawal call spells the filter of a getWithdrawals call
C26_Witness ==
    /\ probe.a = KeyedCall("getWithdrawals", Params(Num(PageSize), Undefined))
    /\ probe.b = KeyedCall("getWithdrawal", Str("{\"limit\":100}"))
    /\ probe.got = Null

\* C27: bounded staleness, no sliding TTL: a call served from the cache
\* leaves the cache as it was and returns a value whose response arrived
\* less than TtlMs before the call; an entry's expiry is the arrival of its
\* response plus TtlMs and changes only when a new response is stored under
\* its key, so hits never put off the expiry.
C27_ServedFromCache(r) ==
    /\ cache' = cache
    /\ origin' = origin
    /\ requests' = requests
    /\ r.key \in DOMAIN cache
    /\ r.val = cache[r.key].data
    /\ origin[r.key].at <= now
    /\ now - origin[r.key].at < TtlMs
C27_BoundedStaleness ==
    /\ [](\A k \in DOMAIN cache : cache[k].expires = origin[k].at + TtlMs)
    /\ [][ /\ (pageCalls' = pageCalls + 1 /\ calls'[ExportCaller].hit)
                => C27_ServedFromCache(calls'[ExportCaller])
           /\ (ncalls' = ncalls + 1 /\ calls' = calls)
                => (last'.hit /\ C27_ServedFromCache(last'))
           /\ \A k \in DOMAIN cache \cap DOMAIN cache' :
                cache'[k] # cache[k] => origin'[k].at = now ]_vars
\* The third page of an export was served from the cache, and the fourth
\* page call, made once the clock reached the expiry set when the entry was
\* stored at instant 0, finds that entry expired and removes it.
C27_Witness ==
    /\ pageCalls = 4
    /\ Len(allFundings) = 3 * PageSize
    /\ upstream.kind = "script" /\ upstream.pos = 3
    /\ calls[ExportCaller].st = "wait"
    /\ calls[ExportCaller].lk.removed
    /\ calls[ExportCaller].lk.expires = TtlMs

\* C28 as stated: every cache entry holds the body of a response to a request
\* this client issued for the path and filter object of the entry's key, and
\* came from a cached operation.
C28_OwnRequest(k) ==
    /\ k \in DOMAIN origin
    /\ origin[k].op \in CachedOps
    /\ origin[k].status \in 200..299
    /\ getCacheKey(origin[k].url, origin[k].params) = k
C28_Provenance_AsStated ==
    \A k \in DOMAIN cache :
        /\ C28_OwnRequest(k)
        /\ cache[k].data = origin[k].body
\* C28: every cache entry comes from a response to a request this client
\* issued for the path and filter object of the entry's key: it holds the
\* body of that response for a list operation and the payload member of the
\* body for a get operation.  An entry appears or changes only in the step
\* in which a pending call of a cached operation for that key completes,
\* never through testConnection or a call for another key.
C28_Provenance ==
    /\ [](\A k \in DOMAIN cache :
            /\ C28_OwnRequest(k)
            /\ cache[k].data = OfResponse(origin[k].op, origin[k].body))
    /\ [][ \A k \in DOMAIN cache' :
              (k \notin DOMAIN cache \/ cache'[k] # cache[k]) =>
                 \E c \in Callers :
                    /\ calls[c].st = "wait"
                    /\ calls[c].op \in CachedOps
                    /\ calls[c].key = k
                    /\ calls[c].sent = 1
                    /\ origin'[k].url = calls[c].req.url
                    /\ origin'[k].params = calls[c].req.params
                    /\ \/ calls'[c].st \in {"ret", "thrown"}
                       \/ calls'[c].st = "idle" /\ last'.key = k ]_vars
\* a testConnection call has returned true and the cache holds one entry,
\* the payload of the response to a getFunding request
C28_Witness ==
    /\ last.op = "testConnection"
    /\ last.val = Bool(TRUE)
    /\ DOMAIN cache = { CacheKeyOf("getFunding", Str("f1")) }
    /\ cache[CacheKeyOf("getFunding", Str("f1"))].data = Item(1)
    /\ origin[CacheKeyOf("getFunding", Str("f1"))].body = Envelope(TRUE, Item(1))

\* C29: an export started after one that wrote its file, while nothing that
\* one cached has expired or been cleared, makes every page call from the
\* cache (no request is sent) and collects, page by page, the fundings the
\* file was written from.
C29_AfterSuccess == nexports >= 2 /\ pc \in {"loop", "await"} /\ file # NoFile
C29_RepeatedExport ==
    C29_AfterSuccess =>
        /\ pageCalls > 0 => (PageCall.hit /\ PageCall.sent = 0)
        /\ LET text == csvContent(allFundings)
           IN Len(text) <= Len(file) /\ text = SubSeq(file, 1, Len(text))

\* C30 as stated, for the first invocation (the file does not exist when it
\* starts): the file is written at most once, not before the loop has ended,
\* a success leaves the complete CSV, and an invocation that answers with an
\* error has left no file.
C30_SingleLateWrite_AsStated ==
    /\ writes <= 1
    /\ pc \in {"loop", "await"} => writes = 0
    /\ Exported => file = csvContent(allFundings)
    /\ (nexports = 1 /\ pc \in {"loop", "await"}) => file = NoFile
    /\ (nexports = 1 /\ pc = "done" /\ result.kind = "error") => file = NoFile
\* a text that is the beginning of another and shorter than it
C30_Partial(f, content) ==
    Len(f) < Len(content) /\ f = SubSeq(content, 1, Len(f))
\* C30: each invocation calls writeFileSync at most once and only in the
\* step that ends it, after the loop; the file does not change while pages
\* are fetched; a success leaves the complete CSV of everything collected; an
\* invocation that answers with an error from pagination has not touched the
\* file; one whose write failed answers with that error and leaves the file
\* as it was or holding only a beginning of the CSV.
C30_SingleLateWrite ==
    /\ [](/\ writes <= 1
          /\ pc \in {"loop", "await"} => writes = 0
          /\ Exported => writes = 1
          /\ (pc = "done" /\ result.kind = "error" /\ PageCall.st = "thrown")
                => writes = 0)
    /\ [][ /\ writes' # writes =>
                \/ writes' = 0 /\ pc' = "loop" /\ file' = file
                \/ pc = "await" /\ pc' = "done" /\ writes' = 1
           /\ (pc = "await" /\ pc' = "done" /\ result'.kind = "exported")
                => file' = csvContent(allFundings')
           /\ file' # file =>
                /\ pc = "await" /\ pc' = "done" /\ writes' = 1
                /\ \/ result'.kind = "exported"
                   \/ /\ result'.kind = "error"
                      /\ C30_Partial(file', csvContent(allFundings')) ]_vars
\* the only write of an invocation failed half way: the answer is an error
\* and the file holds the first half of the CSV
C30_Witness ==
    /\ pc = "done"
    /\ result.kind = "error"
    /\ writes = 1
    /\ pageCalls = 2
    /\ Len(allFundings) = PageSize
    /\ file # << >>
    /\ C30_Partial(file, csvContent(allFundings))

====
